---- MODULE Spec2Model ----
(***************************************************************************)
(* Drill-down navigation of the supplier network diagram                   *)
(* (render_supply_chain_network_content in modules/smart_performance.py).  *)
(*                                                                         *)
(* The Streamlit session keeps three navigation fields.  Every user        *)
(* interaction runs the function once from the top: the Back button, the   *)
(* Reset button, the drill-down buttons of the current tier and the click  *)
(* handler of the chart are evaluated in that order, and a handler that    *)
(* changes the navigation fields ends the pass with st.rerun(), which      *)
(* renders the new state.  Each action below is one such pass.             *)
(*                                                                         *)
(* Python dictionaries are modelled as sequences of entries, in the order  *)
(* of the literal (dictionaries keep insertion order).  Monetary values    *)
(* are floats in the source (millions of pounds); they are kept here in    *)
(* tenths of a million so that they stay integers.                         *)
(***************************************************************************)
EXTENDS Integers, Sequences, FiniteSets, TLC

VARIABLES
    network_view_tier,        \* st.session_state.network_view_tier
    network_selected_tier1,   \* st.session_state.network_selected_tier1
    network_selected_tier2,   \* st.session_state.network_selected_tier2
    hierarchy,                \* which tier-3 dictionary the function is run with
    info,                     \* st.info messages on screen after the pass
    last,                     \* the handler that ran in the last pass and its input
    prior,                    \* the same record for the pass before that
    filter_active,            \* st.session_state['filter_active']
    filter_type,              \* st.session_state['filter_type']
    filter_value,             \* st.session_state['filter_value']
    selections,               \* the selected_* lists of st.session_state
    df,                       \* the table of the session the page works on
    replaced,                 \* the filter the active one took the place of
    cleared,                  \* the filter keys the last clear found, until a set
    call                      \* the last call into chart_filtering and its result

vars == << network_view_tier, network_selected_tier1, network_selected_tier2,
           hierarchy, info, last, prior,
           filter_active, filter_type, filter_value, selections, replaced,
           cleared, df, call >>

\* the variables of the network diagram and those of the cross-chart filter
nav_vars == << network_view_tier, network_selected_tier1,
               network_selected_tier2, hierarchy, info, last, prior >>

filter_vars == << filter_active, filter_type, filter_value, selections,
                  replaced, cleared, df, call >>

nav == << network_view_tier, network_selected_tier1, network_selected_tier2 >>

\* Python's None
None == "None"

\* truth value of an optional string, as in `if st.session_state.network_selected_tier1:`
Truthy(x) == x # None /\ x # ""

(***************************************************************************)
(* The two dictionaries embedded in the function.                          *)
(***************************************************************************)
supplier_hierarchy ==
    <<
      [name |-> "MACE Group", risk |-> "Low", value |-> 4215, issues |-> 0,
       tier2 |-> <<
            [name |-> "Thames Valley Infrastructure", risk |-> "Low", value |-> 1562, issues |-> 0],
            [name |-> "London Pipeline Alliance", risk |-> "Low", value |-> 1273, issues |-> 0],
            [name |-> "Water Quality Solutions", risk |-> "Low", value |-> 1380, issues |-> 0] >>],
      [name |-> "Balfour Beatty Water", risk |-> "Critical", value |-> 1630, issues |-> 5,
       tier2 |-> <<
            [name |-> "Thames Drainage Specialists", risk |-> "Critical", value |-> 895, issues |-> 3],
            [name |-> "Environmental Compliance", risk |-> "High", value |-> 735, issues |-> 2],
            [name |-> "Network Operations", risk |-> "Medium", value |-> 0, issues |-> 0] >>],
      [name |-> "Costain Water Alliance", risk |-> "Medium", value |-> 3243, issues |-> 2,
       tier2 |-> <<
            [name |-> "TTT Integration Works", risk |-> "Medium", value |-> 2897, issues |-> 1],
            [name |-> "Biodiversity Enhancement", risk |-> "Low", value |-> 346, issues |-> 0],
            [name |-> "Strategic Projects", risk |-> "Medium", value |-> 0, issues |-> 1] >>],
      [name |-> "Jacobs Engineering", risk |-> "Low", value |-> 1374, issues |-> 0,
       tier2 |-> <<
            [name |-> "Smart Network Technologies", risk |-> "Low", value |-> 954, issues |-> 0],
            [name |-> "Customer Excellence", risk |-> "Low", value |-> 420, issues |-> 0],
            [name |-> "Innovation Delivery", risk |-> "Low", value |-> 0, issues |-> 0] >>],
      [name |-> "Atkins (SNC-Lavalin)", risk |-> "Low", value |-> 689, issues |-> 0,
       tier2 |-> <<
            [name |-> "Water Quality Assurance", risk |-> "Low", value |-> 689, issues |-> 0],
            [name |-> "Regulatory Compliance", risk |-> "Low", value |-> 0, issues |-> 0],
            [name |-> "Technical Advisory", risk |-> "Low", value |-> 0, issues |-> 0] >>]
    >>

tier3_data_literal ==
    <<
      [name |-> "Pipeline Solutions Ltd",
       tier3 |-> <<
            [name |-> "Advanced Pipe Technologies", risk |-> "Low", value |-> 3150, issues |-> 0],
            [name |-> "Trenchless Solutions UK", risk |-> "Low", value |-> 3200, issues |-> 0],
            [name |-> "Water Main Specialists", risk |-> "Low", value |-> 3150, issues |-> 0] >>],
      [name |-> "Infrastructure Services",
       tier3 |-> <<
            [name |-> "Build Pro Services", risk |-> "Medium", value |-> 1950, issues |-> 1],
            [name |-> "Infrastructure Plus", risk |-> "Low", value |-> 1900, issues |-> 0],
            [name |-> "Service Contractors", risk |-> "Medium", value |-> 1950, issues |-> 1] >>],
      [name |-> "Construction Support",
       tier3 |-> <<
            [name |-> "Support Systems Ltd", risk |-> "Low", value |-> 2150, issues |-> 0],
            [name |-> "Construction Aids", risk |-> "Low", value |-> 2200, issues |-> 0],
            [name |-> "Build Support Co", risk |-> "Low", value |-> 2150, issues |-> 0] >>],
      [name |-> "Civil Engineering",
       tier3 |-> <<
            [name |-> "Engineering Sub 1", risk |-> "High", value |-> 1350, issues |-> 2],
            [name |-> "Engineering Sub 2", risk |-> "Medium", value |-> 1300, issues |-> 1],
            [name |-> "Engineering Sub 3", risk |-> "High", value |-> 1350, issues |-> 2] >>],
      [name |-> "Project Services",
       tier3 |-> <<
            [name |-> "Project Management Co", risk |-> "Medium", value |-> 1400, issues |-> 1],
            [name |-> "Service Delivery Ltd", risk |-> "Low", value |-> 1400, issues |-> 0],
            [name |-> "Project Support", risk |-> "Medium", value |-> 1400, issues |-> 1] >>],
      [name |-> "Infrastructure Delivery",
       tier3 |-> <<
            [name |-> "Delivery Systems", risk |-> "Low", value |-> 1250, issues |-> 0],
            [name |-> "Infrastructure Co", risk |-> "Low", value |-> 1300, issues |-> 0],
            [name |-> "Delivery Partners", risk |-> "Low", value |-> 1250, issues |-> 0] >>],
      [name |-> "Water Infrastructure",
       tier3 |-> <<
            [name |-> "Water Systems Ltd", risk |-> "Low", value |-> 1050, issues |-> 0],
            [name |-> "Hydro Solutions", risk |-> "Low", value |-> 1100, issues |-> 0],
            [name |-> "Infrastructure Water", risk |-> "Low", value |-> 1050, issues |-> 0] >>],
      [name |-> "Construction Management",
       tier3 |-> <<
            [name |-> "Management Systems", risk |-> "Low", value |-> 1050, issues |-> 0],
            [name |-> "Construction Control", risk |-> "Low", value |-> 1050, issues |-> 0],
            [name |-> "Build Management", risk |-> "Low", value |-> 1050, issues |-> 0] >>],
      [name |-> "Engineering Services",
       tier3 |-> <<
            [name |-> "Engineering Plus", risk |-> "Medium", value |-> 1050, issues |-> 1],
            [name |-> "Service Engineers", risk |-> "Low", value |-> 1050, issues |-> 0],
            [name |-> "Technical Services", risk |-> "Medium", value |-> 1050, issues |-> 1] >>],
      [name |-> "Nordic Construction",
       tier3 |-> <<
            [name |-> "Supplier 2.1", risk |-> "High", value |-> 950, issues |-> 2],
            [name |-> "Supplier 2.2", risk |-> "Medium", value |-> 900, issues |-> 1],
            [name |-> "Supplier 2.3", risk |-> "Critical", value |-> 950, issues |-> 3] >>],
      [name |-> "Civil Works",
       tier3 |-> <<
            [name |-> "Civil Contractors", risk |-> "Medium", value |-> 850, issues |-> 1],
            [name |-> "Works Management", risk |-> "Low", value |-> 900, issues |-> 0],
            [name |-> "Civil Solutions", risk |-> "Medium", value |-> 850, issues |-> 1] >>],
      [name |-> "Project Delivery",
       tier3 |-> <<
            [name |-> "Delivery Experts", risk |-> "Low", value |-> 850, issues |-> 0],
            [name |-> "Project Solutions", risk |-> "Low", value |-> 900, issues |-> 0],
            [name |-> "Delivery Systems", risk |-> "Low", value |-> 850, issues |-> 0] >>],
      [name |-> "Infrastructure Solutions",
       tier3 |-> <<
            [name |-> "Solution Providers", risk |-> "Medium", value |-> 650, issues |-> 1],
            [name |-> "Infrastructure Tech", risk |-> "Low", value |-> 700, issues |-> 0],
            [name |-> "Solutions Ltd", risk |-> "Medium", value |-> 650, issues |-> 1] >>],
      [name |-> "Construction Services",
       tier3 |-> <<
            [name |-> "Service Providers", risk |-> "Medium", value |-> 650, issues |-> 1],
            [name |-> "Construction Plus", risk |-> "Low", value |-> 700, issues |-> 0],
            [name |-> "Building Services", risk |-> "Medium", value |-> 650, issues |-> 1] >>],
      [name |-> "Engineering Partners",
       tier3 |-> <<
            [name |-> "Partner Engineers", risk |-> "Low", value |-> 650, issues |-> 0],
            [name |-> "Engineering Alliance", risk |-> "Low", value |-> 700, issues |-> 0],
            [name |-> "Technical Partners", risk |-> "Low", value |-> 650, issues |-> 0] >>]
    >>

(***************************************************************************)
(* A fixture tier-3 table: the embedded one with three subtrees keyed by   *)
(* tier-2 names of the hierarchy, and the table a pass works with.         *)
(***************************************************************************)
\* the table d with the key `from` renamed to `to`
Rekey(d, from, to) ==
    [i \in DOMAIN d |->
        IF d[i].name = from THEN [d[i] EXCEPT !.name = to] ELSE d[i]]

tier3_fixture ==
    Rekey(Rekey(Rekey(tier3_data_literal,
        "Nordic Construction", "Thames Drainage Specialists"),
        "Civil Works", "Environmental Compliance"),
        "Pipeline Solutions Ltd", "Thames Valley Infrastructure")

\* tier3_data as the running function sees it
tier3_data ==
    IF hierarchy = "embedded" THEN tier3_data_literal ELSE tier3_fixture

(***************************************************************************)
(* Dictionary operations on a sequence of entries keyed by .name           *)
(***************************************************************************)
\* list(d.keys())
Keys(d) == [i \in DOMAIN d |-> d[i].name]

\* k in d
Has(d, k) == \E i \in DOMAIN d : d[i].name = k

\* d[k]
Get(d, k) == d[CHOOSE i \in DOMAIN d : d[i].name = k]

\* d.get(k, {}) for the tier-3 table: the entries under k, or the empty dictionary
GetTier3(d, k) == IF Has(d, k) THEN Get(d, k).tier3 ELSE << >>

\* [x for x in s if Test(x)]
RECURSIVE SelectNames(_, _)
SelectNames(names, d) ==
    IF names = << >> THEN << >>
    ELSE (IF Has(d, Head(names)) THEN << Head(names) >> ELSE << >>)
         \o SelectNames(Tail(names), d)

\* tier3_available = [name for name in tier2_names if name in tier3_data]
tier3_available(tier1_supplier, t3) ==
    SelectNames(Keys(Get(supplier_hierarchy, tier1_supplier).tier2), t3)


(***************************************************************************)
(* The figure of the current view: the traces of fig_network in the order  *)
(* they are added.  A trace carries customdata only when it is a supplier  *)
(* node of tier 1 or tier 2; points is the number of points of the trace.  *)
(***************************************************************************)
CentralTrace(label) == [name |-> label, points |-> 1, customdata |-> << >>]

LineTrace == [name |-> "", points |-> 2, customdata |-> << >>]

NodeTrace(supplier, clickable) ==
    [name |-> supplier, points |-> 1,
     customdata |-> IF clickable THEN << supplier >> ELSE << >>]

\* NodeTraces laying the suppliers out in reverse order
RECURSIVE NodeTracesReversed(_, _)
NodeTracesReversed(names, clickable) ==
    IF names = << >> THEN << >>
    ELSE NodeTracesReversed(Tail(names), clickable)
         \o << LineTrace, NodeTrace(Head(names), clickable) >>

\* for i, supplier in enumerate(names): add the connection line, then the node
RECURSIVE NodeTraces(_, _)
NodeTraces(names, clickable) ==
    IF names = << >> THEN << >>
    ELSE << LineTrace, NodeTrace(Head(names), clickable) >>
         \o NodeTraces(Tail(names), clickable)

Figure(tier, sel1, sel2, t3) ==
    IF tier = 1
    THEN << CentralTrace("Thames Water") >>
         \o NodeTraces(Keys(supplier_hierarchy), TRUE)
    ELSE IF tier = 2 /\ Truthy(sel1)
    THEN << CentralTrace(sel1) >>
         \o NodeTraces(Keys(Get(supplier_hierarchy, sel1).tier2), TRUE)
    ELSE IF tier = 3 /\ Truthy(sel2)
    THEN LET tier3_suppliers == GetTier3(t3, sel2)
         IN  IF tier3_suppliers # << >>
             THEN << CentralTrace(sel2) >>
                  \o NodeTraces(Keys(tier3_suppliers), FALSE)
             ELSE << >>
    ELSE << >>

(***************************************************************************)
(* st.info messages                                                        *)
(***************************************************************************)
InfoNoTier3Current ==
    [text |-> "No Tier 3 data available for current suppliers.",
     supplier |-> "", risk |-> "", value |-> 0]

InfoNoTier3Supplier ==
    [text |-> "No Tier 3 data available for this supplier.",
     supplier |-> "", risk |-> "", value |-> 0]

InfoDetail(clicked_supplier, data) ==
    [text |-> "Detailed analysis for", supplier |-> clicked_supplier,
     risk |-> data.risk, value |-> data.value]

\* the st.info messages that rendering the view of a state puts on screen
RenderInfo(tier, sel1, sel2, t3) ==
    IF tier = 2 /\ Truthy(sel1)
    THEN IF tier3_available(sel1, t3) # << >> THEN {} ELSE {InfoNoTier3Current}
    ELSE IF tier = 3 /\ Truthy(sel2)
    THEN IF GetTier3(t3, sel2) # << >> THEN {} ELSE {InfoNoTier3Supplier}
    ELSE {}

(***************************************************************************)
(* "Current tier information" of the tier-2 view: the list of the tier-2   *)
(* suppliers under the selected tier-1 supplier and its two metrics.       *)
(***************************************************************************)
\* sum(1 for data in d.values() if data['risk'] in risks)
RECURSIVE CountRisk(_, _)
CountRisk(d, risks) ==
    IF d = << >> THEN 0
    ELSE (IF Head(d).risk \in risks THEN 1 ELSE 0) + CountRisk(Tail(d), risks)

\* sum(data['issues'] for data in d.values())
RECURSIVE SumIssues(_)
SumIssues(d) ==
    IF d = << >> THEN 0 ELSE Head(d).issues + SumIssues(Tail(d))

all_tier2(tier1_supplier) ==
    Keys(Get(supplier_hierarchy, tier1_supplier).tier2)

\* high_risk_tier2 with the test data['risk'] == 'Critical'
high_risk_tier2_critical_only(tier1_supplier) ==
    CountRisk(Get(supplier_hierarchy, tier1_supplier).tier2, {"Critical"})

high_risk_tier2(tier1_supplier) ==
    CountRisk(Get(supplier_hierarchy, tier1_supplier).tier2,
              {"High", "Critical"})

\* total_tier2_issues counting the suppliers that have issues
total_tier2_issues_counts_suppliers(tier1_supplier) ==
    CountRisk(SelectSeq(Get(supplier_hierarchy, tier1_supplier).tier2,
                        LAMBDA data : data.issues > 0),
              {"Low", "Medium", "High", "Critical"})

total_tier2_issues(tier1_supplier) ==
    SumIssues(Get(supplier_hierarchy, tier1_supplier).tier2)

(***************************************************************************)
(* "Current tier information" of the tier-1 and the tier-3 view, the nodes *)
(* each view draws, and the two metrics the block shows for a state.       *)
(***************************************************************************)
\* tier 1: sum(1 for data in supplier_hierarchy.values()
\*             if data['risk'] in ['High', 'Critical'])
high_risk == CountRisk(supplier_hierarchy, {"High", "Critical"})

\* tier 1: sum(data['issues'] for data in supplier_hierarchy.values())
total_issues == SumIssues(supplier_hierarchy)

\* tier 3: len([name for name, data in tier3_suppliers.items()
\*              if data['risk'] == 'Critical'])
critical_count(tier3_suppliers) == CountRisk(tier3_suppliers, {"Critical"})

\* tier 3: sum(data['issues'] for data in tier3_suppliers.values())
total_tier3_issues(tier3_suppliers) == SumIssues(tier3_suppliers)

\* the dictionary whose entries the view of a state draws as supplier nodes
VisibleNodes(tier, sel1, sel2, t3) ==
    IF tier = 1 THEN supplier_hierarchy
    ELSE IF tier = 2 /\ Truthy(sel1) THEN Get(supplier_hierarchy, sel1).tier2
    ELSE IF tier = 3 /\ Truthy(sel2) THEN GetTier3(t3, sel2)
    ELSE << >>

\* the risk metric and the issue metric of the block, << >> when the block
\* shows none
ViewMetrics(tier, sel1, sel2, t3) ==
    IF tier = 1
    THEN << [risk_count |-> high_risk, issues |-> total_issues] >>
    ELSE IF tier = 2 /\ Truthy(sel1)
    THEN << [risk_count |-> high_risk_tier2(sel1),
             issues |-> total_tier2_issues(sel1)] >>
    ELSE IF tier = 3 /\ Truthy(sel2)
    THEN LET tier3_suppliers == GetTier3(t3, sel2)
         IN  IF tier3_suppliers # << >>
             THEN << [risk_count |-> critical_count(tier3_suppliers),
                      issues |-> total_tier3_issues(tier3_suppliers)] >>
             ELSE << >>
    ELSE << >>

(***************************************************************************)
(* Handlers.  A handler that assigns the navigation fields ends with       *)
(* st.rerun(): the next pass renders the new state (Rerun).  A pass in     *)
(* which no handler assigns anything runs to its end and leaves the        *)
(* messages of its own rendering on screen (Stay).                         *)
(***************************************************************************)
Rerun(op, node) ==
    /\ info' = RenderInfo(network_view_tier', network_selected_tier1',
                          network_selected_tier2', tier3_data)
    /\ last' = [op |-> op, node |-> node, before |-> nav]
    /\ prior' = last
    /\ UNCHANGED hierarchy
    /\ UNCHANGED filter_vars

Stay(op, node, messages) ==
    /\ UNCHANGED << network_view_tier, network_selected_tier1,
                    network_selected_tier2, hierarchy >>
    /\ info' = RenderInfo(network_view_tier, network_selected_tier1,
                          network_selected_tier2, tier3_data) \cup messages
    /\ last' = [op |-> op, node |-> node, before |-> nav]
    /\ prior' = last
    /\ UNCHANGED filter_vars

\* BackButton whose tier-3 branch also drops the tier-1 selection
BackButtonDropsParent ==
    /\ network_view_tier > 1
    /\ IF network_view_tier = 3
       THEN /\ network_view_tier' = 2
            /\ network_selected_tier2' = None
            /\ network_selected_tier1' = None
       ELSE IF network_view_tier = 2
       THEN /\ network_view_tier' = 1
            /\ network_selected_tier1' = None
            /\ UNCHANGED network_selected_tier2
       ELSE UNCHANGED nav
    /\ Rerun("back", None)

\* BackButton that always returns to the root view
BackButtonToRoot ==
    /\ network_view_tier > 1
    /\ network_view_tier' = 1
    /\ network_selected_tier1' = None
    /\ network_selected_tier2' = None
    /\ Rerun("back", None)

\* BackButton shown from tier 1 on, stepping the tier down by one
BackButtonFromTier1 ==
    /\ network_view_tier > 0
    /\ network_view_tier' = network_view_tier - 1
    /\ IF network_view_tier = 3
       THEN network_selected_tier2' = None /\ UNCHANGED network_selected_tier1
       ELSE network_selected_tier1' = None /\ UNCHANGED network_selected_tier2
    /\ Rerun("back", None)

\* BackButton with the tier-2 branch leaving network_selected_tier1 set
BackButtonKeepsTier1 ==
    /\ network_view_tier > 1
    /\ IF network_view_tier = 3
       THEN /\ network_view_tier' = 2
            /\ network_selected_tier2' = None
            /\ UNCHANGED network_selected_tier1
       ELSE IF network_view_tier = 2
       THEN /\ network_view_tier' = 1
            /\ UNCHANGED << network_selected_tier1, network_selected_tier2 >>
       ELSE UNCHANGED nav
    /\ Rerun("back", None)

\* BackButton with the tier-2 branch missing: only tier 3 is handled
BackButtonOnlyFromTier3 ==
    /\ network_view_tier > 1
    /\ IF network_view_tier = 3
       THEN /\ network_view_tier' = 2
            /\ network_selected_tier2' = None
            /\ UNCHANGED network_selected_tier1
       ELSE UNCHANGED nav
    /\ Rerun("back", None)

\* "<- Back to Previous Tier": the button exists only above tier 1
BackButton ==
    /\ network_view_tier > 1
    /\ IF network_view_tier = 3
       THEN /\ network_view_tier' = 2
            /\ network_selected_tier2' = None
            /\ UNCHANGED network_selected_tier1
       ELSE IF network_view_tier = 2
       THEN /\ network_view_tier' = 1
            /\ network_selected_tier1' = None
            /\ UNCHANGED network_selected_tier2
       ELSE UNCHANGED nav
    /\ Rerun("back", None)

\* ResetButton that resets the tier but leaves the tier-1 selection
ResetButtonKeepsSelection ==
    /\ network_view_tier' = 1
    /\ network_selected_tier2' = None
    /\ UNCHANGED network_selected_tier1
    /\ Rerun("reset", None)

\* "Reset to Tier 1"
ResetButton ==
    /\ network_view_tier' = 1
    /\ network_selected_tier1' = None
    /\ network_selected_tier2' = None
    /\ Rerun("reset", None)

\* Tier1Button that records the selection but not the tier
Tier1ButtonKeepsTier(supplier) ==
    /\ network_view_tier = 1
    /\ Has(supplier_hierarchy, supplier)
    /\ network_selected_tier1' = supplier
    /\ UNCHANGED << network_view_tier, network_selected_tier2 >>
    /\ Rerun("tier1_button", supplier)

\* one button per tier-1 supplier, in the tier-1 view
Tier1Button(supplier) ==
    /\ network_view_tier = 1
    /\ Has(supplier_hierarchy, supplier)
    /\ network_view_tier' = 2
    /\ network_selected_tier1' = supplier
    /\ UNCHANGED network_selected_tier2
    /\ Rerun("tier1_button", supplier)

\* the drill-down buttons of the tier-2 view: one per tier-2 supplier that is
\* a key of the tier-3 table, or the notice when there is none
Tier2Buttons ==
    /\ network_view_tier = 2
    /\ Truthy(network_selected_tier1)
    /\ LET tier3_avail == tier3_available(network_selected_tier1, tier3_data)
       IN  IF tier3_avail # << >>
           THEN \E i \in DOMAIN tier3_avail :
                    /\ network_view_tier' = 3
                    /\ network_selected_tier2' = tier3_avail[i]
                    /\ UNCHANGED network_selected_tier1
                    /\ Rerun("tier2_button", tier3_avail[i])
           ELSE Stay("tier2_notice", None, {})

\* HandleClick without the st.info of the tier-2 branch
HandleClickSilent(clicked_supplier) ==
    IF network_view_tier = 1 /\ Has(supplier_hierarchy, clicked_supplier)
    THEN /\ network_view_tier' = 2
         /\ network_selected_tier1' = clicked_supplier
         /\ UNCHANGED network_selected_tier2
         /\ Rerun("chart_click", clicked_supplier)
    ELSE IF network_view_tier = 2 /\ Truthy(network_selected_tier1)
    THEN LET tier2_suppliers ==
                 Get(supplier_hierarchy, network_selected_tier1).tier2
         IN  IF Has(tier2_suppliers, clicked_supplier)
             THEN IF Has(tier3_data, clicked_supplier)
                  THEN /\ network_view_tier' = 3
                       /\ network_selected_tier2' = clicked_supplier
                       /\ UNCHANGED network_selected_tier1
                       /\ Rerun("chart_click", clicked_supplier)
                  ELSE Stay("chart_click", clicked_supplier, {})
             ELSE Stay("chart_click", clicked_supplier, {})
    ELSE Stay("chart_click", clicked_supplier, {})

\* HandleClick without the test `clicked_supplier in tier3_data`
HandleClickNoTier3Check(clicked_supplier) ==
    IF network_view_tier = 1 /\ Has(supplier_hierarchy, clicked_supplier)
    THEN /\ network_view_tier' = 2
         /\ network_selected_tier1' = clicked_supplier
         /\ UNCHANGED network_selected_tier2
         /\ Rerun("chart_click", clicked_supplier)
    ELSE IF network_view_tier = 2 /\ Truthy(network_selected_tier1)
    THEN LET tier2_suppliers ==
                 Get(supplier_hierarchy, network_selected_tier1).tier2
         IN  IF Has(tier2_suppliers, clicked_supplier)
             THEN /\ network_view_tier' = 3
                  /\ network_selected_tier2' = clicked_supplier
                  /\ UNCHANGED network_selected_tier1
                  /\ Rerun("chart_click", clicked_supplier)
             ELSE Stay("chart_click", clicked_supplier, {})
    ELSE Stay("chart_click", clicked_supplier, {})

\* a click on a supplier node of the chart: the branch of the tier-1 view
\* and the branch of the tier-2 view
HandleClick(clicked_supplier) ==
    IF network_view_tier = 1 /\ Has(supplier_hierarchy, clicked_supplier)
    THEN /\ network_view_tier' = 2
         /\ network_selected_tier1' = clicked_supplier
         /\ UNCHANGED network_selected_tier2
         /\ Rerun("chart_click", clicked_supplier)
    ELSE IF network_view_tier = 2 /\ Truthy(network_selected_tier1)
    THEN LET tier2_suppliers ==
                 Get(supplier_hierarchy, network_selected_tier1).tier2
         IN  IF Has(tier2_suppliers, clicked_supplier)
             THEN IF Has(tier3_data, clicked_supplier)
                  THEN /\ network_view_tier' = 3
                       /\ network_selected_tier2' = clicked_supplier
                       /\ UNCHANGED network_selected_tier1
                       /\ Rerun("chart_click", clicked_supplier)
                  ELSE Stay("chart_click", clicked_supplier,
                            {InfoDetail(clicked_supplier,
                                        Get(tier2_suppliers, clicked_supplier))})
             ELSE Stay("chart_click", clicked_supplier, {})
    ELSE Stay("chart_click", clicked_supplier, {})

\* the selection reported by st.plotly_chart(..., on_select="rerun"); only
\* a trace with customdata is a supplier node.  The pass records the name of
\* the trace that was clicked, None when the selection names no trace.
ChartClick(points) ==
    LET fig == Figure(network_view_tier, network_selected_tier1,
                      network_selected_tier2, tier3_data)
    IN
    IF points = << >>
    THEN Stay("chart_click", None, {})
    ELSE
    LET point == points[1]
        trace_index == point.curve_number
        point_index == point.point_number
    IN
    IF ~ (trace_index < Len(fig))
    THEN Stay("chart_click", None, {})
    ELSE
    LET clicked_trace == fig[trace_index + 1]
    IN
    IF clicked_trace.customdata = << >>
    THEN Stay("chart_click", clicked_trace.name, {})
    ELSE HandleClick(clicked_trace.customdata[point_index + 1])

(***************************************************************************)
(* Inputs                                                                  *)
(***************************************************************************)
\* largest curve number a selection can carry: the tier-1 figure has a
\* central trace and a line and a node per supplier
MaxCurve == 10

\* a selection is empty or holds the point the user clicked; Plotly reports
\* points of the figure it was showing, so the point number exists in the
\* trace whenever the trace still exists in the current figure
Selections ==
    { << >> } \cup
    { << [curve_number |-> c, point_number |-> p] >> :
          c \in 0..MaxCurve, p \in 0..1 }

SelectionOfFigure(points) ==
    LET fig == Figure(network_view_tier, network_selected_tier1,
                      network_selected_tier2, tier3_data)
    IN  points # << >> /\ points[1].curve_number < Len(fig)
            => points[1].point_number < fig[points[1].curve_number + 1].points

Tier1Names == { supplier_hierarchy[i].name : i \in DOMAIN supplier_hierarchy }

(***************************************************************************)
(* Cross-chart filter (utils/chart_filtering.py).  A table is a record of  *)
(* its column names and the sequence of its rows; a row is a function from *)
(* column name to cell.  Monetary cells are integers, other cells strings. *)
(***************************************************************************)
\* largest number of rows of a table
MaxRows == 2

risk_levels == {"High", "Low"}
suppliers == {"Acme", ""}
package_names == {"P1"}
total_values_gbp == {500000, 2000000}

\* schema of a table that carries the supplier and the monetary column
PipelineRows ==
    { ("risk_level" :> r) @@ ("supplier" :> s) @@ ("total_value_gbp" :> g) :
          r \in risk_levels, s \in suppliers, g \in total_values_gbp }

\* schema of a table with neither of them
PackageRows ==
    { ("risk_level" :> r) @@ ("package_name" :> p) :
          r \in risk_levels, p \in package_names }

SeqsUpTo(S, n) == UNION { [1..k -> S] : k \in 0..n }

Tables ==
    { [columns |-> {"risk_level", "supplier", "total_value_gbp"}, rows |-> rs] :
          rs \in SeqsUpTo(PipelineRows, MaxRows) }
    \cup
    { [columns |-> {"risk_level", "package_name"}, rows |-> rs] :
          rs \in SeqsUpTo(PackageRows, MaxRows) }

\* df.copy()
CopyEmpty(table) == [table EXCEPT !.rows = << >>]

Copy(table) == table

\* filtered_df[filtered_df[column] == filter_value]
WhereOthers(table, column, value) ==
    LET keep(row) == row[column] # value
    IN  [table EXCEPT !.rows = SelectSeq(table.rows, keep)]

WhereTail(table, column, value) ==
    LET keep(row) == row[column] = value
        kept == SelectSeq(table.rows, keep)
    IN  [table EXCEPT !.rows = IF kept = << >> THEN kept ELSE Tail(kept)]

Where(table, column, value) ==
    LET keep(row) == row[column] = value
    IN  [table EXCEPT !.rows = SelectSeq(table.rows, keep)]

\* one arm of the if/elif chain: taken when the filter type is this name and
\* the table has the column, otherwise the rest of the chain decides
Branch(table, filter_type_arg, filter_value_arg, name, rest) ==
    IF filter_type_arg = name /\ name \in table.columns
    THEN Where(Copy(table), name, filter_value_arg)
    ELSE rest

\* apply_cross_chart_filter without the test of line 8
apply_cross_chart_filter_ungated(active, table, filter_type_arg, filter_value_arg) ==
    Branch(table, filter_type_arg, filter_value_arg, "rag_status",
    Branch(table, filter_type_arg, filter_value_arg, "procurement_category",
    Branch(table, filter_type_arg, filter_value_arg, "supplier",
    Branch(table, filter_type_arg, filter_value_arg, "risk_level",
    Branch(table, filter_type_arg, filter_value_arg, "current_stage",
    Branch(table, filter_type_arg, filter_value_arg, "team_member",
    Branch(table, filter_type_arg, filter_value_arg, "market_segment",
           Copy(table))))))))

\* apply_cross_chart_filter(df, filter_type, filter_value); active is
\* st.session_state.get('filter_active', False) at the time of the call
apply_cross_chart_filter(active, table, filter_type_arg, filter_value_arg) ==
    IF ~ active \/ ~ Truthy(filter_type_arg) \/ ~ Truthy(filter_value_arg)
    THEN table
    ELSE
        Branch(table, filter_type_arg, filter_value_arg, "rag_status",
        Branch(table, filter_type_arg, filter_value_arg, "procurement_category",
        Branch(table, filter_type_arg, filter_value_arg, "supplier",
        Branch(table, filter_type_arg, filter_value_arg, "risk_level",
        Branch(table, filter_type_arg, filter_value_arg, "current_stage",
        Branch(table, filter_type_arg, filter_value_arg, "team_member",
        Branch(table, filter_type_arg, filter_value_arg, "market_segment",
               Copy(table))))))))

\* filtered_df['total_value_gbp'].sum()
RECURSIVE SumColumn(_, _)
SumColumn(rows, column) ==
    IF rows = << >> THEN 0
    ELSE Head(rows)[column] + SumColumn(Tail(rows), column)

\* the quotient sum / 1_000_000 kept exact as numerator and denominator;
\* the literal 0 of the else arm is 0 / 1
total_value(table) ==
    IF "total_value_gbp" \in table.columns
    THEN [num |-> SumColumn(table.rows, "total_value_gbp"), den |-> 1000000]
    ELSE [num |-> 0, den |-> 1]

\* get_filtered_summary_stats(df) as a function of the session's filter
get_filtered_summary_stats_tracks_change(active, ftype, fvalue, table) ==
    LET filtered_df == apply_cross_chart_filter(active, table, ftype, fvalue)
    IN  [contracts |-> Len(filtered_df.rows),
         value_m   |-> total_value(filtered_df),
         filtered  |-> Len(filtered_df.rows) < Len(table.rows)]

get_filtered_summary_stats_unfiltered(active, ftype, fvalue, table) ==
    [contracts |-> Len(table.rows),
     value_m   |-> total_value(table),
     filtered  |-> active]

get_filtered_summary_stats(active, ftype, fvalue, table) ==
    IF active
    THEN LET filtered_df == apply_cross_chart_filter(active, table, ftype, fvalue)
         IN  [contracts |-> Len(filtered_df.rows),
              value_m   |-> total_value(filtered_df),
              filtered  |-> TRUE]
    ELSE [contracts |-> Len(table.rows),
          value_m   |-> total_value(table),
          filtered  |-> FALSE]

\* the filter keys of the session as seen through st.session_state.get
FilterState == << filter_active, filter_type, filter_value >>

SelectionKeys == {"selected_contracts", "selected_suppliers",
                  "selected_categories"}

NoTable == [columns |-> {}, rows |-> << >>]

NoStats == [contracts |-> 0, value_m |-> [num |-> 0, den |-> 1],
            filtered |-> FALSE]

\* the record kept of a call: the function, its arguments, the filter keys
\* when it was entered, and what it returned
Call(fn, type_arg, value_arg, pressed, result, stats) ==
    [fn |-> fn, filter_type |-> type_arg, filter_value |-> value_arg,
     pressed |-> pressed, before |-> FilterState,
     result |-> result, stats |-> stats]

\* ApplyCrossChartFilter that stores its arguments as the session's filter
ApplyCrossChartFilterStoresArgs(filter_type_arg, filter_value_arg) ==
    /\ call' = Call("apply_cross_chart_filter", filter_type_arg,
                    filter_value_arg, FALSE,
                    apply_cross_chart_filter(filter_active, df,
                                             filter_type_arg, filter_value_arg),
                    NoStats)
    /\ filter_type' = filter_type_arg
    /\ filter_value' = filter_value_arg
    /\ UNCHANGED << filter_active, selections, replaced, cleared, df >>
    /\ UNCHANGED nav_vars

\* a call of apply_cross_chart_filter on the session's table
ApplyCrossChartFilter(filter_type_arg, filter_value_arg) ==
    /\ call' = Call("apply_cross_chart_filter", filter_type_arg,
                    filter_value_arg, FALSE,
                    apply_cross_chart_filter(filter_active, df,
                                             filter_type_arg, filter_value_arg),
                    NoStats)
    /\ UNCHANGED << filter_active, filter_type, filter_value, selections,
                    replaced, cleared, df >>
    /\ UNCHANGED nav_vars

\* the assignments of the Apply Filter button
SetFilterKeepsType(filter_column, selected_value) ==
    /\ filter_active' = TRUE
    /\ filter_type' = IF filter_active THEN filter_type ELSE filter_column
    /\ filter_value' = selected_value

SetFilter(filter_column, selected_value) ==
    /\ filter_active' = TRUE
    /\ filter_type' = filter_column
    /\ filter_value' = selected_value

\* df[filter_column].unique().tolist()
unique_values(table, column) ==
    { table.rows[i][column] : i \in DOMAIN table.rows }

\* CreateFilterableChart without the test `selected_value != 'All'`
CreateFilterableChartSetsAll(filter_column, selected_value, pressed) ==
    LET filtered_df == apply_cross_chart_filter(filter_active, df,
                                                filter_type, filter_value)
        selector == Truthy(filter_column) /\ filter_column \in df.columns
    IN  /\ ~ selector => selected_value = "All" /\ ~ pressed
        /\ selector =>
               selected_value \in {"All"} \cup unique_values(df, filter_column)
        /\ call' = Call("create_filterable_chart", filter_column,
                        selected_value, pressed, filtered_df, NoStats)
        /\ IF selector /\ pressed
           THEN /\ SetFilter(filter_column, selected_value)
                /\ replaced' = IF filter_active
                               THEN << filter_type, filter_value >>
                               ELSE << None, None >>
                /\ cleared' = << FALSE, None, None >>
           ELSE UNCHANGED << filter_active, filter_type, filter_value,
                             replaced, cleared >>
        /\ UNCHANGED << selections, df >>
        /\ UNCHANGED nav_vars

\* create_filterable_chart(chart_func, df, chart_key, filter_column): the
\* chart is drawn over the filtered table; the selector and its button exist
\* when the column is named and present, and a pressed button with a value
\* other than 'All' sets the filter and ends the pass
CreateFilterableChart(filter_column, selected_value, pressed) ==
    LET filtered_df == apply_cross_chart_filter(filter_active, df,
                                                filter_type, filter_value)
        selector == Truthy(filter_column) /\ filter_column \in df.columns
    IN  /\ ~ selector => selected_value = "All" /\ ~ pressed
        /\ selector =>
               selected_value \in {"All"} \cup unique_values(df, filter_column)
        /\ call' = Call("create_filterable_chart", filter_column,
                        selected_value, pressed, filtered_df, NoStats)
        /\ IF selector /\ pressed /\ selected_value # "All"
           THEN /\ SetFilter(filter_column, selected_value)
                /\ replaced' = IF filter_active
                               THEN << filter_type, filter_value >>
                               ELSE << None, None >>
                /\ cleared' = << FALSE, None, None >>
           ELSE UNCHANGED << filter_active, filter_type, filter_value,
                             replaced, cleared >>
        /\ UNCHANGED << selections, df >>
        /\ UNCHANGED nav_vars

\* clear_all_filters()
clear_all_filters_keeps_categories ==
    /\ filter_active' = FALSE
    /\ filter_type' = None
    /\ filter_value' = None
    /\ selections' = [k \in (DOMAIN selections) \cup
                            {"selected_contracts", "selected_suppliers"} |->
                         IF k = "selected_categories" THEN selections[k]
                         ELSE << >>]

clear_all_filters_keeps_filter ==
    /\ UNCHANGED << filter_active, filter_type, filter_value >>
    /\ selections' = [k \in SelectionKeys |-> << >>]

clear_all_filters_keeps_active ==
    /\ filter_active' = filter_active
    /\ filter_type' = None
    /\ filter_value' = None
    /\ selections' = [k \in SelectionKeys |-> << >>]

clear_all_filters ==
    /\ filter_active' = FALSE
    /\ filter_type' = None
    /\ filter_value' = None
    /\ selections' = [k \in SelectionKeys |-> << >>]

\* a direct call of clear_all_filters
ClearAllFilters ==
    /\ clear_all_filters
    /\ call' = Call("clear_all_filters", None, None, FALSE, NoTable, NoStats)
    /\ replaced' = << None, None >>
    /\ cleared' = FilterState
    /\ UNCHANGED df
    /\ UNCHANGED nav_vars

\* render_filter_controls(): the Reset All Filters button exists while a
\* filter is active; pressing it clears the filters and ends the pass
ResetAllFilters ==
    /\ filter_active
    /\ clear_all_filters
    /\ call' = Call("render_filter_controls", None, None, TRUE, NoTable,
                    NoStats)
    /\ replaced' = << None, None >>
    /\ cleared' = FilterState
    /\ UNCHANGED df
    /\ UNCHANGED nav_vars

\* a call of get_filtered_summary_stats on the session's table
GetFilteredSummaryStats ==
    /\ call' = Call("get_filtered_summary_stats", None, None, FALSE, NoTable,
                    get_filtered_summary_stats(filter_active, filter_type,
                                               filter_value, df))
    /\ UNCHANGED << filter_active, filter_type, filter_value, selections,
                    replaced, cleared, df >>
    /\ UNCHANGED nav_vars

\* arguments of the calls: a column of each kind (recognized and present,
\* recognized and absent, present and not recognized) and no column; a
\* value of each kind (a cell of the column, a cell of another column, the
\* empty string) and no value
TypeArgs == {"risk_level", "supplier", "rag_status", "package_name", None}

ValueArgs == {"High", "Acme", "", None}

ColumnArgs == {"risk_level", "supplier", "rag_status", "package_name", None}

\* the session before any filter function ran: no filter key is set, so
\* get('filter_active', False) is False and get('filter_type'),
\* get('filter_value') are None; no selection list exists
InitSession ==
    /\ filter_active = FALSE
    /\ filter_type = None
    /\ filter_value = None
    /\ selections = [k \in {} |-> << >>]
    /\ replaced = << None, None >>
    /\ cleared = << FALSE, None, None >>
    /\ call = Call("none", None, None, FALSE, NoTable, NoStats)

\* the table the navigation pages leave untouched
PipelineSample ==
    [columns |-> {"risk_level", "supplier", "total_value_gbp"},
     rows |-> << ("risk_level" :> "High") @@ ("supplier" :> "Acme")
                     @@ ("total_value_gbp" :> 500000) >>]

(***************************************************************************)
(* Project delivery tab (modules/smart_sourcing.py): the metrics drawn     *)
(* from the session's table under the cross-chart filter                   *)
(***************************************************************************)
current_stages == {"Contract", "Tender Process"}

rag_statuses == {"Green", "Red", "Amber"}

DeliveryRows ==
    { ("current_stage" :> c) @@ ("risk_level" :> r)
          @@ ("total_value_gbp" :> g) :
          c \in current_stages, r \in risk_levels, g \in total_values_gbp }

DeliveryTables ==
    { [columns |-> {"current_stage", "risk_level", "total_value_gbp"},
       rows |-> rs] : rs \in SeqsUpTo(DeliveryRows, MaxRows) }

\* df[df[column].isin(values)]
WhereIn(table, column, values) ==
    LET keep(row) == row[column] \in values
    IN  [table EXCEPT !.rows = SelectSeq(table.rows, keep)]

get_rag_status(row) ==
    IF row["current_stage"] \in {"Contract", "Award"} THEN "Green"
    ELSE IF row["risk_level"] = "High" THEN "Red"
    ELSE IF row["current_stage"] \in {"Evaluation", "Tender Process"}
         THEN "Amber"
    ELSE "Green"

\* df['rag_status'] = df.apply(get_rag_status, axis=1)
WithRagStatus(table) ==
    [columns |-> table.columns \cup {"rag_status"},
     rows |-> [i \in DOMAIN table.rows |->
                  ("rag_status" :> get_rag_status(table.rows[i]))
                      @@ table.rows[i]]]

\* the four metrics of the tab; the penalty exposure delayed * 2.5 is kept
\* in tenths
DeliveryMetrics(stats) ==
    LET filter_suffix == IF stats.filtered THEN " (Filtered)" ELSE ""
        delivered_df == IF ~ stats.filtered THEN df
                        ELSE WhereIn(df, "current_stage", {"Contract", "Award"})
        on_track == Len(WhereIn(delivered_df, "current_stage",
                                {"Contract", "Award"}).rows)
        risk_df == IF ~ stats.filtered THEN df ELSE df
        delayed == Len(Where(risk_df, "risk_level", "High").rows)
    IN  [filter_suffix |-> filter_suffix,
         value_m |-> stats.value_m,
         on_track |-> on_track,
         contracts |-> stats.contracts,
         delayed |-> delayed,
         penalty_exposure |-> delayed * 25,
         critical_path_blocked |-> delayed \div 2]

NoMetrics ==
    [filter_suffix |-> "", value_m |-> [num |-> 0, den |-> 1],
     on_track |-> 0, contracts |-> 0, delayed |-> 0,
     penalty_exposure |-> 0, critical_path_blocked |-> 0]

\* one pass of render_project_delivery_tab in which no button is pressed:
\* an empty table ends it with an error message; otherwise the summary and
\* the metrics are drawn and the table gets its rag_status column
RenderProjectDeliveryTab ==
    /\ {"current_stage", "risk_level"} \subseteq df.columns
    /\ IF df.rows = << >>
       THEN /\ call' = Call("render_project_delivery_tab", None, None, FALSE,
                            NoTable, NoStats) @@ [metrics |-> NoMetrics]
            /\ UNCHANGED df
       ELSE LET stats == get_filtered_summary_stats(filter_active, filter_type,
                                                    filter_value, df)
            IN  /\ call' = Call("render_project_delivery_tab", None, None,
                                FALSE, NoTable, stats)
                               @@ [metrics |-> DeliveryMetrics(stats)]
                /\ df' = WithRagStatus(df)
    /\ UNCHANGED << filter_active, filter_type, filter_value, selections,
                    replaced, cleared >>
    /\ UNCHANGED nav_vars

(***************************************************************************)
(* Specification of the program: the embedded tier-3 table                 *)
(***************************************************************************)
InitNav ==
    /\ network_view_tier = 1
    /\ network_selected_tier1 = None
    /\ network_selected_tier2 = None
    /\ info = {}
    /\ last = [op |-> "init", node |-> None, before |-> << 1, None, None >>]
    /\ prior = [op |-> "init", node |-> None, before |-> << 1, None, None >>]

Init ==
    /\ hierarchy = "embedded"
    /\ InitNav
    /\ InitSession
    /\ df = PipelineSample

Tier1Press == \E supplier \in Tier1Names : Tier1Button(supplier)

ChartSelect == \E points \in Selections :
                   SelectionOfFigure(points) /\ ChartClick(points)

Next ==
    \/ BackButton
    \/ ResetButton
    \/ Tier1Press
    \/ Tier2Buttons
    \/ ChartSelect

Spec == Init /\ [][Next]_vars


(***************************************************************************)
(* Specification over fixture hierarchies.  No tier-2 name of the embedded *)
(* hierarchy is a key of the embedded tier-3 table, so with the literals   *)
(* the tier-3 view is never entered.  The handlers do not depend on the    *)
(* literals: here the same handlers run over a tier-3 table in which some  *)
(* subtrees are keyed by tier-2 names of the hierarchy, the shape the      *)
(* handlers are written for.                                               *)
(***************************************************************************)
InitFixture ==
    /\ hierarchy \in {"embedded", "fixture"}
    /\ InitNav
    /\ InitSession
    /\ df = PipelineSample

SpecFixture == InitFixture /\ [][Next]_vars


(***************************************************************************)
(* Specification of the cross-chart filter: the filter functions called in *)
(* any order on a session whose table is one of Tables                     *)
(***************************************************************************)
InitFilter ==
    /\ hierarchy = "embedded"
    /\ InitNav
    /\ InitSession
    /\ df \in Tables

ApplyCall == \E t \in TypeArgs, v \in ValueArgs : ApplyCrossChartFilter(t, v)

ChartPass ==
    \E c \in ColumnArgs, v \in {"All"} \cup risk_levels \cup suppliers
                                   \cup package_names \cup rag_statuses,
       pressed \in BOOLEAN :
        CreateFilterableChart(c, v, pressed)

NextFilter ==
    \/ ApplyCall
    \/ ChartPass
    \/ ClearAllFilters
    \/ ResetAllFilters
    \/ GetFilteredSummaryStats

SpecFilter == InitFilter /\ [][NextFilter]_vars


(***************************************************************************)
(* Specification of the project delivery tab: passes of the tab over a     *)
(* session whose filter the chart functions set and the tab's reset        *)
(* button clears                                                           *)
(***************************************************************************)
InitDelivery ==
    /\ hierarchy = "embedded"
    /\ InitNav
    /\ InitSession
    /\ df \in DeliveryTables

NextDelivery ==
    \/ ChartPass
    \/ ResetAllFilters
    \/ RenderProjectDeliveryTab

SpecDelivery == InitDelivery /\ [][NextDelivery]_vars


(***************************************************************************)
(* Properties of the navigation state                                      *)
(***************************************************************************)
InitialNav == << 1, None, None >>

\* the passes that are a drill-down attempt: a tier button or a chart click
DrillOps == {"tier1_button", "tier2_button", "chart_click"}

\* nodeId is a tier-2 entry of the tier-1 supplier parent
IsChild(parent, nodeId) ==
    /\ Has(supplier_hierarchy, parent)
    /\ Has(Get(supplier_hierarchy, parent).tier2, nodeId)

\* C1: the tier is 1, 2 or 3; at tier 1 nothing is selected, at tier 2 the
\* tier-1 supplier is selected and the tier-2 supplier is not, at tier 3
\* both are selected.
C1_NavInvariant ==
    /\ network_view_tier \in {1, 2, 3}
    /\ network_view_tier = 1 =>
           network_selected_tier1 = None /\ network_selected_tier2 = None
    /\ network_view_tier = 2 =>
           network_selected_tier1 # None /\ network_selected_tier2 = None
    /\ network_view_tier = 3 =>
           network_selected_tier1 # None /\ network_selected_tier2 # None

\* a tier-2 state entered by a drill-down, after an earlier Back
C1_Witness ==
    /\ network_view_tier = 2
    /\ network_selected_tier1 \in Tier1Names
    /\ last.op \in DrillOps
    /\ prior.op = "back"

\* C2: after Reset the navigation state is the initial one, whatever the
\* state before it and whatever the pass before it.
C2_ResetYieldsInitial ==
    last.op = "reset" => nav = InitialNav

\* Reset pressed in a tier-2 state
C2_Witness ==
    /\ last.op = "reset"
    /\ last.before[1] = 2
    /\ last.before[2] \in Tier1Names

\* C3: a drill-down from tier 1 into a tier-1 supplier followed at once by
\* Back ends at tier 1 with no selection.
C3_RoundTrip ==
    ( /\ prior.op \in DrillOps
      /\ prior.before[1] = 1
      /\ prior.node \in Tier1Names
      /\ last.op = "back" )
    => nav = InitialNav

\* the round trip through the last tier-1 supplier of the hierarchy
C3_Witness ==
    /\ prior.op \in DrillOps
    /\ prior.before = InitialNav
    /\ prior.node = supplier_hierarchy[Len(supplier_hierarchy)].name
    /\ last.op = "back"
    /\ last.before = << 2, prior.node, None >>

\* C4: a drill-down attempt at tier 1 (button or chart click) moves to
\* tier 2 with the clicked node as parent exactly when the node is a tier-1
\* supplier; any other target leaves the navigation state as it was.
C4_DrillFromTier1 ==
    ( last.op \in DrillOps /\ last.before[1] = 1 )
    => IF last.node \in Tier1Names
       THEN nav = << 2, last.node, None >>
       ELSE nav = last.before

\* a click on the central node, which is no supplier, then a button drill
C4_Witness ==
    /\ prior.op = "chart_click"
    /\ prior.node = "Thames Water"
    /\ prior.before = InitialNav
    /\ last.op = "tier1_button"
    /\ last.before = InitialNav
    /\ network_view_tier = 2

\* C5: a drill-down attempt at tier 2 reaches tier 3 only for a tier-2 child
\* of the parent that is a key of the tier-3 table; otherwise the state
\* stays tier 2 under the same parent with no tier-2 selection.
C5_DrillFromTier2 ==
    ( last.op \in DrillOps \cup {"tier2_notice"} /\ last.before[1] = 2 )
    => LET parent == last.before[2]
           accepted == /\ IsChild(parent, last.node)
                       /\ Has(tier3_data, last.node)
       IN  /\ network_view_tier = 3 => accepted
           /\ ~ accepted => nav = << 2, parent, None >>

\* a chart click on a tier-2 child that has no tier-3 entry
C5_Witness ==
    /\ last.op = "chart_click"
    /\ last.before[1] = 2
    /\ IsChild(last.before[2], last.node)
    /\ ~ Has(tier3_data, last.node)
    /\ nav = last.before


\* the messages a pass put on screen beyond the notices of the view itself
HandlerMessages ==
    info \ RenderInfo(network_view_tier, network_selected_tier1,
                      network_selected_tier2, tier3_data)

\* the last pass was a chart click at tier 2 on a tier-2 child of the parent
\* that has no tier-3 entry
NoDeeperDataClick ==
    /\ last.op = "chart_click"
    /\ last.before[1] = 2
    /\ IsChild(last.before[2], last.node)
    /\ ~ Has(tier3_data, last.node)

\* the last pass was a chart click at tier 2 on a trace that is no tier-2
\* child of the parent (the central node or a connection line)
InvalidSelectionClick ==
    /\ last.op = "chart_click"
    /\ last.before[1] = 2
    /\ last.node # None
    /\ ~ IsChild(last.before[2], last.node)

\* C6 as stated: both rejections are surfaced as an informational message,
\* and the message of an invalid selection is not the one of no deeper data.
C6_BothSurfaced ==
    /\ NoDeeperDataClick =>
           \E m \in HandlerMessages : m.text = "Detailed analysis for"
    /\ InvalidSelectionClick =>
           \E m \in HandlerMessages : m.text # "Detailed analysis for"

\* C6 amended: a click on a child without tier-3 data shows the detail
\* message of that child; a click on a trace that is no child shows no
\* message of its own and leaves the state; so the two outcomes differ.
C6_RejectionsDistinct ==
    /\ NoDeeperDataClick =>
           /\ nav = last.before
           /\ HandlerMessages =
                  {InfoDetail(last.node,
                       Get(Get(supplier_hierarchy, last.before[2]).tier2,
                           last.node))}
    /\ InvalidSelectionClick =>
           /\ nav = last.before
           /\ HandlerMessages = {}

\* a click on a child without tier-3 data followed by a click on the
\* central node of the tier-2 view
C6_Witness ==
    /\ prior.op = "chart_click"
    /\ prior.before[1] = 2
    /\ IsChild(prior.before[2], prior.node)
    /\ InvalidSelectionClick
    /\ last.node = last.before[2]

\* C7: Back at tier 3 gives tier 2 under the same tier-1 supplier with no
\* tier-2 selection.
C7_BackFromTier3 ==
    ( last.op = "back" /\ last.before[1] = 3 )
    => nav = << 2, last.before[2], None >>

\* Back pressed at tier 3 under a tier-1 supplier
C7_Witness ==
    /\ last.op = "back"
    /\ last.before[1] = 3
    /\ last.before[2] \in Tier1Names
    /\ last.before[3] # None

\* a Back pass that changes the navigation state
BackChangesNav == BackButton /\ nav' # nav

\* C8: at tier 1 no Back pass can change the tier or a selection.
C8_NoBackAtTier1 ==
    network_view_tier = 1 => ~ ENABLED BackChangesNav

\* tier 1 reached again through Back
C8_Witness ==
    /\ network_view_tier = 1
    /\ last.op = "back"
    /\ last.before[1] = 2

\* C9: the tier changes by one step at a time: a drill-down never lowers it
\* and raises it by at most one, keeping the parent; Back lowers it by
\* exactly one; tier 3 is entered only from tier 2 under the same tier-1
\* supplier and a drill-down enters tier 2 only from tier 1; only Reset
\* moves from tier 3 to tier 1.
C9_NoTierSkipped ==
    LET before == last.before
    IN  /\ last.op \in DrillOps =>
               \/ nav = before
               \/ /\ network_view_tier = before[1] + 1
                  /\ before[1] = 1 => before = InitialNav
                  /\ before[1] = 2 => network_selected_tier1 = before[2]
        /\ last.op = "back" => network_view_tier = before[1] - 1
        /\ ( network_view_tier = 3 /\ before[1] # 3 ) =>
               /\ before[1] = 2
               /\ before[2] = network_selected_tier1
               /\ last.op \in DrillOps
        /\ ( network_view_tier = 2 /\ before[1] # 2 /\ last.op \in DrillOps ) =>
               before[1] = 1
        /\ ( before[1] = 3 /\ network_view_tier = 1 ) => last.op = "reset"

\* tier 3 entered from tier 2, which was entered from tier 1
C9_Witness ==
    /\ network_view_tier = 3
    /\ last.op \in DrillOps
    /\ last.before = << 2, network_selected_tier1, None >>
    /\ prior.op \in DrillOps
    /\ prior.before = InitialNav

\* the tier-2 view under "Balfour Beatty Water" entered by a drill-down
BalfourView ==
    /\ nav = << 2, "Balfour Beatty Water", None >>
    /\ last.op \in DrillOps
    /\ last.before = InitialNav

\* a click on "Network Operations" in the tier-2 view under "Balfour Beatty
\* Water"
NetworkOperationsClick ==
    /\ last.op = "chart_click"
    /\ last.node = "Network Operations"
    /\ last.before = << 2, "Balfour Beatty Water", None >>

\* C10 as stated: the view shows 3 tier-2 nodes, 5 issues and 1 high-risk
\* node.
C10_ScenarioAsStated ==
    BalfourView =>
        /\ Len(all_tier2(network_selected_tier1)) = 3
        /\ total_tier2_issues(network_selected_tier1) = 5
        /\ high_risk_tier2(network_selected_tier1) = 1

\* C10 amended: the view shows 3 tier-2 nodes, 5 issues and 2 high-risk
\* nodes; the click on "Network Operations" leaves the state and shows the
\* detail message of that node.
C10_Scenario ==
    /\ BalfourView =>
           /\ Len(all_tier2(network_selected_tier1)) = 3
           /\ total_tier2_issues(network_selected_tier1) = 5
           /\ high_risk_tier2(network_selected_tier1) = 2
    /\ NetworkOperationsClick =>
           /\ nav = last.before
           /\ [text |-> "Detailed analysis for",
               supplier |-> "Network Operations",
               risk |-> "Medium", value |-> 0] \in info

\* the drill-down into "Balfour Beatty Water" followed by the click on
\* "Network Operations"
C10_Witness ==
    /\ prior.op \in DrillOps
    /\ prior.before = InitialNav
    /\ prior.node = "Balfour Beatty Water"
    /\ NetworkOperationsClick
    /\ nav = << 2, "Balfour Beatty Water", None >>


(***************************************************************************)
(* Properties of the view                                                  *)
(***************************************************************************)
\* the nodes and the metrics of the view of the current state
CurrentNodes ==
    VisibleNodes(network_view_tier, network_selected_tier1,
                 network_selected_tier2, tier3_data)

CurrentMetrics ==
    ViewMetrics(network_view_tier, network_selected_tier1,
                network_selected_tier2, tier3_data)

FigureNodeNames(fig) ==
    [i \in 1..((Len(fig) - 1) \div 2) |-> fig[2 * i + 1].name]

CurrentFigure ==
    Figure(network_view_tier, network_selected_tier1,
           network_selected_tier2, tier3_data)

\* C12: the view lists exactly the nodes of the current tier under the
\* current parent chain, in the order of the hierarchy definition.
C12_ViewInDefinitionOrder ==
    /\ network_view_tier = 1 =>
           FigureNodeNames(CurrentFigure) = Keys(supplier_hierarchy)
    /\ network_view_tier = 2 =>
           FigureNodeNames(CurrentFigure) =
               Keys(Get(supplier_hierarchy, network_selected_tier1).tier2)
    /\ network_view_tier = 3 =>
           /\ IsChild(network_selected_tier1, network_selected_tier2)
           /\ FigureNodeNames(CurrentFigure) =
                  Keys(Get(tier3_data, network_selected_tier2).tier3)

\* the tier-2 view under a supplier whose children are not in risk order
C12_Witness ==
    /\ network_view_tier = 2
    /\ network_selected_tier1 = "Costain Water Alliance"
    /\ FigureNodeNames(CurrentFigure) =
           << "TTT Integration Works", "Biodiversity Enhancement",
              "Strategic Projects" >>

\* the tier-1 suppliers that list name among their tier-2 entries
Tier2Parents(name) ==
    { i \in DOMAIN supplier_hierarchy :
          Has(supplier_hierarchy[i].tier2, name) }

\* the keys of the tier-3 table that list name among their entries
Tier3Parents(name) ==
    { i \in DOMAIN tier3_data : Has(tier3_data[i].tier3, name) }

Tier2NodeNames ==
    UNION { { supplier_hierarchy[i].tier2[j].name :
                  j \in DOMAIN supplier_hierarchy[i].tier2 } :
            i \in DOMAIN supplier_hierarchy }

Tier3NodeNames ==
    UNION { { tier3_data[i].tier3[j].name : j \in DOMAIN tier3_data[i].tier3 } :
            i \in DOMAIN tier3_data }

\* C13: every tier-2 name is listed under exactly one tier-1 supplier and
\* every tier-3 name under exactly one key of the tier-3 table.
C13_Forest ==
    /\ \A name \in Tier2NodeNames : Cardinality(Tier2Parents(name)) = 1
    /\ \A name \in Tier3NodeNames : Cardinality(Tier3Parents(name)) = 1


(***************************************************************************)
(* Properties of the cross-chart filter                                    *)
(***************************************************************************)
\* C18: in every state reached by filter-apply and clear actions, an active
\* filter has a filter type and a filter value that are not None
C18_ActiveHasTypeAndValue ==
    filter_active => filter_type # None /\ filter_value # None

\* a filter is active after an Apply Filter press and again after a clear
\* and a second press
C18_Witness ==
    /\ filter_active
    /\ call.fn = "create_filterable_chart"
    /\ call.pressed
    /\ ~ call.before[1]
    /\ selections # [k \in {} |-> << >>]

\* the seven recognized dimensions
RecognizedDimensions ==
    {"rag_status", "procurement_category", "supplier", "risk_level",
     "current_stage", "team_member", "market_segment"}

\* r is s with some rows left out, the others in their order
IsSubCollection(r, s) ==
    \E f \in [DOMAIN r -> DOMAIN s] :
        /\ \A i, j \in DOMAIN r : i < j => f[i] < f[j]
        /\ \A i \in DOMAIN r : r[i] = s[f[i]]

\* the rows of result are exactly the rows of table whose cell d is v
IsSelection(result, table, d, v) ==
    /\ IsSubCollection(result.rows, table.rows)
    /\ \A i \in DOMAIN result.rows : result.rows[i][d] = v
    /\ Len(result.rows) =
           Cardinality({ i \in DOMAIN table.rows : table.rows[i][d] = v })
    /\ Len(result.rows) <= Len(table.rows)

\* the last call was apply_cross_chart_filter with a recognized dimension
\* that is a column of the table and a value present in that column
ApplyOfPresentValue ==
    /\ call.fn = "apply_cross_chart_filter"
    /\ call.filter_type \in RecognizedDimensions
    /\ call.filter_type \in df.columns
    /\ call.filter_value \in unique_values(df, call.filter_type)

\* C14 as stated: for a recognized dimension d and a value v present in
\* column d, apply_cross_chart_filter(df, d, v) returns exactly the rows of
\* df with row[d] = v, whatever the session holds
C14_AppliesAlways ==
    ApplyOfPresentValue =>
        IsSelection(call.result, df, call.filter_type, call.filter_value)

\* C14: while the session's filter_active is set and v is not empty,
\* apply_cross_chart_filter(df, d, v) for a recognized dimension d and a
\* value v present in column d returns a sub-collection of df's rows in
\* which every row has row[d] = v, with all such rows, and no longer than df
C14_AppliesWhenActive ==
    ApplyOfPresentValue /\ call.before[1] /\ Truthy(call.filter_value) =>
        IsSelection(call.result, df, call.filter_type, call.filter_value)

\* an active session filters a two-row table down to its one matching row
C14_Witness ==
    /\ ApplyOfPresentValue
    /\ call.before[1]
    /\ Truthy(call.filter_value)
    /\ Len(df.rows) = 2
    /\ Len(call.result.rows) = 1

\* C15: apply_cross_chart_filter is idempotent: applied, in the same
\* session, to its own result with the same dimension and value it returns
\* that result again
C15_Idempotent ==
    call.fn = "apply_cross_chart_filter" =>
        apply_cross_chart_filter(call.before[1], call.result,
                                 call.filter_type, call.filter_value)
            = call.result

\* the first application left rows out, under an active filter
C15_Witness ==
    /\ call.fn = "apply_cross_chart_filter"
    /\ call.before[1]
    /\ Len(df.rows) = 2
    /\ Len(call.result.rows) = 1

\* the dimension named in the last call is not recognized for the table:
\* not one of the seven names, or one of them with no such column
Unrecognized(d) ==
    d \notin RecognizedDimensions \/ d \notin df.columns

\* C16: when the requested dimension is not recognized for the table,
\* apply_cross_chart_filter returns all rows of the input unchanged,
\* whatever the value
C16_UnrecognizedIsNoOp ==
    call.fn = "apply_cross_chart_filter" /\ Unrecognized(call.filter_type)
        => call.result = df

\* an active session is asked for a dimension that passes the gate of the
\* function and reaches the end of the chain: a recognized name whose column
\* the table lacks
C16_Witness ==
    /\ call.fn = "apply_cross_chart_filter"
    /\ call.before[1]
    /\ call.filter_type = "rag_status"
    /\ Truthy(call.filter_value)
    /\ Len(df.rows) = 2
    /\ call.result = df

\* the positions of the rows of table whose cell d is v
Matching(table, d, v) ==
    { i \in DOMAIN table.rows : table.rows[i][d] = v }

\* the last pass pressed Apply Filter with a value other than 'All'
FilterSet ==
    /\ call.fn = "create_filterable_chart"
    /\ call.pressed
    /\ call.filter_value # "All"

\* the filter (d, v) selects rows of the table: d is a recognized column of
\* it and v is not empty
Selects(d, v) ==
    d \in RecognizedDimensions /\ d \in df.columns /\ Truthy(v)

\* C17: at most one filter is active: a filter set over an active one leaves
\* the filter state exactly (active, d2, v2), and every later summary and
\* every later application count and return the rows selected by their one
\* filter alone, whatever the replaced filter was
C17_SingleFilter ==
    /\ FilterSet =>
           FilterState = << TRUE, call.filter_type, call.filter_value >>
    /\ replaced # << None, None >> /\ call.fn = "get_filtered_summary_stats" =>
           call.stats.contracts =
               IF Selects(filter_type, filter_value)
               THEN Cardinality(Matching(df, filter_type, filter_value))
               ELSE Len(df.rows)
    /\ replaced # << None, None >> /\ call.fn = "apply_cross_chart_filter" =>
           IF Selects(call.filter_type, call.filter_value)
           THEN IsSelection(call.result, df, call.filter_type,
                            call.filter_value)
           ELSE call.result = df

\* a filter on one column took the place of a filter on another, and the
\* summary then counts a row that the replaced filter would have left out
C17_Witness ==
    /\ call.fn = "get_filtered_summary_stats"
    /\ filter_active
    /\ replaced[1] \in df.columns
    /\ replaced[1] # filter_type
    /\ Selects(filter_type, filter_value)
    /\ call.stats.contracts = 2
    /\ \E i \in Matching(df, filter_type, filter_value) :
           df.rows[i][replaced[1]] # replaced[2]

\* the last call was clear_all_filters, directly or from the reset button
Cleared == call.fn \in {"clear_all_filters", "render_filter_controls"}

\* C19: clear_all_filters, from any filter state, leaves filter_active
\* False, filter_type and filter_value None, and the lists
\* selected_contracts, selected_suppliers and selected_categories empty
C19_ClearResetsAll ==
    Cleared =>
        /\ FilterState = << FALSE, None, None >>
        /\ DOMAIN selections = SelectionKeys
        /\ \A k \in SelectionKeys : selections[k] = << >>

\* a clear that found a filter active
C19_Witness ==
    /\ call.fn = "clear_all_filters"
    /\ call.before[1]
    /\ call.before[2] # None
    /\ ~ filter_active

\* the table the summary is computed over: the filtered view while a filter
\* is active, the whole table otherwise
SummaryView ==
    IF filter_active
    THEN apply_cross_chart_filter(filter_active, df, filter_type, filter_value)
    ELSE df

\* the quotient q is the integer n
IsInteger(q, n) ==
    q.num % q.den = 0 /\ q.num \div q.den = n

\* the summary counts the rows of the view
CountsView ==
    call.stats.contracts = Len(SummaryView.rows)

\* C20 as stated: the summary counts the rows of the view and its total
\* value is the sum of total_value_gbp over those rows, 0 without the column
C20_TotalIsSum ==
    call.fn = "get_filtered_summary_stats" =>
        /\ CountsView
        /\ IsInteger(call.stats.value_m,
                     IF "total_value_gbp" \in df.columns
                     THEN SumColumn(SummaryView.rows, "total_value_gbp")
                     ELSE 0)

\* C20: get_filtered_summary_stats counts the rows of
\* apply_cross_chart_filter(df, active type, active value) while a filter is
\* active and of df otherwise; its value is the sum of total_value_gbp over
\* those same rows divided by 1,000,000, and 0 when the column is absent
C20_TotalIsSumInMillions ==
    call.fn = "get_filtered_summary_stats" =>
        /\ CountsView
        /\ call.stats.filtered = filter_active
        /\ IF "total_value_gbp" \in df.columns
           THEN call.stats.value_m =
                    [num |-> SumColumn(SummaryView.rows, "total_value_gbp"),
                     den |-> 1000000]
           ELSE IsInteger(call.stats.value_m, 0)

\* a summary under a filter that leaves out a row carrying a value
C20_Witness ==
    /\ call.fn = "get_filtered_summary_stats"
    /\ filter_active
    /\ "total_value_gbp" \in df.columns
    /\ Len(df.rows) = 2
    /\ call.stats.contracts = 1
    /\ call.stats.value_m.num > 0

\* the totals of a summary: its row count and its value
Totals(stats) == << stats.contracts, stats.value_m >>

\* the totals over all rows of the table
FullTotals ==
    << Len(df.rows), total_value(df) >>

\* the active filter selects rows and every row of the table matches it
MatchesEveryRow ==
    /\ filter_active
    /\ Selects(filter_type, filter_value)
    /\ Matching(df, filter_type, filter_value) = DOMAIN df.rows

\* C21: get_filtered_summary_stats under an active filter that matches every
\* row of df returns the totals it returns for df with no active filter
C21_NoOpFilterSameTotals ==
    call.fn = "get_filtered_summary_stats" /\ MatchesEveryRow =>
        Totals(call.stats) =
            Totals(get_filtered_summary_stats(FALSE, None, None, df))

\* a summary of a two-row table under a filter both rows match
C21_Witness ==
    /\ call.fn = "get_filtered_summary_stats"
    /\ MatchesEveryRow
    /\ Len(df.rows) = 2
    /\ call.stats.value_m.num > 0

\* C22: after a filter was set and then cleared, get_filtered_summary_stats
\* returns the totals over all rows of df, as before any filter was set
C22_SetClearRoundTrip ==
    call.fn = "get_filtered_summary_stats" /\ cleared[1] =>
        /\ Totals(call.stats) = FullTotals
        /\ Totals(call.stats) =
               Totals(get_filtered_summary_stats(FALSE, None, None, df))
        /\ ~ call.stats.filtered

\* the cleared filter had left a row of a two-row table out
C22_Witness ==
    /\ call.fn = "get_filtered_summary_stats"
    /\ cleared[1]
    /\ Selects(cleared[2], cleared[3])
    /\ Cardinality(Matching(df, cleared[2], cleared[3])) = 1
    /\ call.stats.contracts = 2

\* the last pass drew the project delivery tab under an active filter
DeliveryUnderFilter ==
    /\ call.fn = "render_project_delivery_tab"
    /\ call.before[1]
    /\ df.rows # << >>

\* C23: while a filter is active, the aggregates of the project delivery tab
\* are computed over the filtered rows: the delivered count counts rows of
\* the filtered set its denominator counts, and the high-risk count behind
\* the penalty exposure and the blocked dependencies counts filtered rows
C23_AggregatesOverFilteredRows ==
    DeliveryUnderFilter =>
        /\ call.metrics.contracts = Len(SummaryView.rows)
        /\ call.metrics.value_m = total_value(SummaryView)
        /\ call.metrics.on_track =
               Len(WhereIn(SummaryView, "current_stage",
                           {"Contract", "Award"}).rows)
        /\ call.metrics.on_track <= call.metrics.contracts
        /\ call.metrics.delayed =
               Len(Where(SummaryView, "risk_level", "High").rows)

\* C24 as stated: the 'filtered' indicator of the summary is true exactly
\* when the active filter removed at least one row of the table
C24_FilteredIffRowsRemoved ==
    call.fn = "get_filtered_summary_stats" =>
        (call.stats.filtered <=>
             filter_active /\ Len(SummaryView.rows) < Len(df.rows))

\* C24: the 'filtered' indicator of the summary is true exactly when a
\* filter is active, whether or not the filter removed a row
C24_FilteredIffActive ==
    call.fn = "get_filtered_summary_stats" =>
        (call.stats.filtered <=> filter_active)

\* a summary under an active filter on a column that is not a recognized
\* dimension: no row is removed and the indicator is set
C24_Witness ==
    /\ call.fn = "get_filtered_summary_stats"
    /\ filter_active
    /\ ~ Selects(filter_type, filter_value)
    /\ Len(df.rows) = 2
    /\ call.stats.contracts = 2
    /\ call.stats.filtered

\* the navigation state one handler, and no other, makes of the state n
OneHandler(op, node, n) ==
    IF op = "back"
    THEN IF n[1] = 3 THEN << 2, n[2], None >> ELSE << 1, None, n[3] >>
    ELSE IF op = "reset" THEN << 1, None, None >>
    ELSE IF op = "tier1_button" THEN << 2, node, n[3] >>
    ELSE IF op = "tier2_button" THEN << 3, n[2], node >>
    ELSE IF op = "chart_click"
    THEN IF n[1] = 1 THEN << 2, node, n[3] >> ELSE << 3, n[2], node >>
    ELSE n

\* C25: a handling pass that changed the navigation state changed it by the
\* transition of one handler alone, and the view was rendered again from
\* the new state before any other handler ran
C25_OneTransitionPerPass ==
    nav # last.before =>
        /\ last.op \in {"back", "reset"} \cup DrillOps
        /\ nav = OneHandler(last.op, last.node, last.before)
        /\ info = RenderInfo(network_view_tier, network_selected_tier1,
                             network_selected_tier2, tier3_data)

\* two passes in a row, each with its one transition: a chart click from
\* tier 2 into tier 3, then Back
C25_Witness ==
    /\ prior.op = "chart_click"
    /\ prior.before[1] = 2
    /\ last.op = "back"
    /\ last.before[1] = 3
    /\ network_view_tier = 2

\* the calls that read the filter
ReadingCalls == {"apply_cross_chart_filter", "get_filtered_summary_stats"}

\* the calls that write it: the Apply Filter press and the two clears
WritingCalls == {"create_filterable_chart", "clear_all_filters",
                 "render_filter_controls"}

\* C26: apply_cross_chart_filter and get_filtered_summary_stats change none
\* of filter_active, filter_type, filter_value and leave the table as it
\* was; the filter state changes only in an Apply Filter press or a clear
C26_FilterReadOnly ==
    [][ /\ call'.fn \in ReadingCalls =>
               /\ << filter_active, filter_type, filter_value >>'
                      = << filter_active, filter_type, filter_value >>
               /\ df' = df
        /\ << filter_active, filter_type, filter_value >>'
               # << filter_active, filter_type, filter_value >> =>
               /\ call'.fn \in WritingCalls
               /\ call'.fn = "create_filterable_chart" =>
                      call'.pressed /\ call'.filter_value # "All"
      ]_vars

\* an application under an active filter returned fewer rows than the table
\* holds, and the table and the filter are as the call found them
C26_Witness ==
    /\ call.fn = "apply_cross_chart_filter"
    /\ FilterState = call.before
    /\ filter_active
    /\ Len(df.rows) = 2
    /\ Len(call.result.rows) < Len(df.rows)

\* the navigation states of the tier-2 view, one per tier-1 supplier
Tier2States == { << 2, p, None >> : p \in Tier1Names }

\* C27: with the embedded literals no tier-2 name is a key of tier3_data:
\* every drill-down from the tier-2 view is rejected, tier 3 is never
\* entered, and the navigation states are the tier-1 state and the tier-2
\* state of each of the five tier-1 suppliers, each entered from tier 1
C27_Tier3Unreachable ==
    /\ \A p \in Tier1Names : tier3_available(p, tier3_data) = << >>
    /\ network_view_tier # 3
    /\ Cardinality(Tier1Names) = 5
    /\ nav \in {InitialNav} \cup Tier2States
    /\ nav = InitialNav => \A p \in Tier1Names : ENABLED Tier1Button(p)
    /\ last.op \in DrillOps /\ last.before[1] = 2 => nav = last.before

\* a click on a tier-2 node of the chart, in the tier-2 view, left the
\* state where it was
C27_Witness ==
    /\ last.op = "chart_click"
    /\ last.before[1] = 2
    /\ IsChild(last.before[2], last.node)
    /\ nav = last.before
    /\ nav \in Tier2States

\* C28: the tier-1 selection, when set, is a key of supplier_hierarchy; the
\* tier-2 selection, when set, is a tier-2 child of the tier-1 selection
\* and a key of tier3_data; so the lookups of the tier-2 and tier-3 views
\* find their keys
C28_SelectionPath ==
    /\ Truthy(network_selected_tier1) =>
           Has(supplier_hierarchy, network_selected_tier1)
    /\ Truthy(network_selected_tier2) =>
           /\ Truthy(network_selected_tier1)
           /\ IsChild(network_selected_tier1, network_selected_tier2)
           /\ Has(tier3_data, network_selected_tier2)
    /\ network_view_tier = 2 => Truthy(network_selected_tier1)
    /\ network_view_tier = 3 => Truthy(network_selected_tier2)

\* the tier-3 view of a tier-2 supplier entered by a click on the chart
C28_Witness ==
    /\ network_view_tier = 3
    /\ last.op = "chart_click"
    /\ network_selected_tier2 = last.node
    /\ GetTier3(tier3_data, network_selected_tier2) # << >>

\* the test of line 8 lets the call through: the session's filter is active
\* and both arguments are truthy
GateOpen ==
    call.before[1] /\ Truthy(call.filter_type) /\ Truthy(call.filter_value)

\* C29: apply_cross_chart_filter filters only when filter_active is set and
\* both d and v are truthy; with the session filter inactive, or d or v
\* None or empty, it returns the input table with all its rows, even for a
\* recognized d and a v present in df
C29_GatedByActiveAndTruthy ==
    call.fn = "apply_cross_chart_filter" =>
        /\ ~ GateOpen => call.result = df
        /\ GateOpen /\ Selects(call.filter_type, call.filter_value) =>
               IsSelection(call.result, df, call.filter_type,
                           call.filter_value)

\* an inactive session is asked for a recognized dimension and a value
\* present in one row of two, and returns both rows
C29_Witness ==
    /\ ApplyOfPresentValue
    /\ ~ call.before[1]
    /\ Truthy(call.filter_value)
    /\ Cardinality(Matching(df, call.filter_type, call.filter_value)) = 1
    /\ Len(call.result.rows) = 2

\* the same under an active filter with the empty string, present in a row
C29_WitnessEmpty ==
    /\ ApplyOfPresentValue
    /\ call.before[1]
    /\ call.filter_value = ""
    /\ Cardinality(Matching(df, call.filter_type, call.filter_value)) = 1
    /\ Len(call.result.rows) = 2

\* the last pass pressed Apply Filter with the selection 'All'
AllPressed ==
    /\ call.fn = "create_filterable_chart"
    /\ call.pressed
    /\ call.filter_value = "All"

\* C30: Apply Filter pressed with the selection 'All' leaves filter_active,
\* filter_type and filter_value as they were; pressed with another
\* selection it sets them to (True, filter_column, selected value)
C30_AllLeavesFilter ==
    /\ AllPressed => FilterState = call.before
    /\ FilterSet =>
           FilterState = << TRUE, call.filter_type, call.filter_value >>
    /\ call.fn = "create_filterable_chart" /\ ~ call.pressed =>
           FilterState = call.before

\* 'All' applied over an active filter, which stays active
C30_Witness ==
    /\ AllPressed
    /\ call.before[1]
    /\ filter_active
    /\ filter_type = call.before[2]

====
